---------------------------- MODULE Spec2Model ----------------------------
(***************************************************************************)
(* Container lifecycle orchestration of the docker daemon, for one         *)
(* container:                                                              *)
(*   - daemon/start.go: ContainerStart, Start, containerStart, Cleanup     *)
(*   - libcontainerd container (src/docker/flags.go 51-260): clean,        *)
(*     cleanProcess, spec, start, handleEvent and its restart waiter       *)
(* Parts of the repository that are not among the source files (the        *)
(* state-changed callback, the client's lock, registry, delivery queue and *)
(* Create wrapper, the restart manager, the execution backend) follow the  *)
(* specification document; they are marked "spec" in the comments.         *)
(***************************************************************************)
EXTENDS Integers, Sequences, FiniteSets, TLC

(* ------------------------------ bounds -------------------------------- *)

\* number of backend events the event-ingestion thread handles in one run
MaxEvents == 2

\* A run holds one API start request, made at any moment of the run; it
\* races with the event-ingestion thread, the restart waiter and the
\* delivery queue.
Threads == {"api"}
\* owner of a lock: a thread, the restart waiter, or nobody
Free == "free"
WaiterId == "waiter"

(* exit statuses the backend reports for a process *)
ExitStatuses == {0, 1}
InitFriendlyName == "init"

(* ------------------------------ state --------------------------------- *)

VARIABLES
    c,              \* the daemon's Container record
    ctr,            \* the runtime client's shadow record of the container
    rm,             \* the container's restart manager
    backend,        \* the execution backend: is the container's process alive / frozen
    q,              \* the client's serialized delivery queue for the container
    waiter,         \* the restart waiter goroutine of handleEvent
    clientLock,     \* client.lock(containerID): owner
    containerLock,  \* container.Lock(): owner
    pc,             \* position of each start request
    req,            \* each start request: entry point, hostConfig, what it saw
    ret,            \* each start request: what it returned
    tlog,           \* lifecycle events ("start", "die") logged by each start request
    delivered,      \* history: StateInfo values the state-changed callback received
    hist,           \* history: the events handled, the create RPCs sent, the
                    \* calls of clean and of start by the waiter
    cr,             \* a run of Daemon.create: its position, what it has
                    \* provisioned, what it returns
    cu,             \* a run of calls of Daemon.Cleanup on a container and its
                    \* collaborators
    stream          \* the event-ingestion thread, the restart waiters and
                    \* the delivery queues of two containers, lock by lock

\* the start / event / restart machinery of one container
lifecycle == <<c, ctr, rm, backend, q, waiter, clientLock, containerLock,
               pc, req, ret, tlog, delivered, hist>>
\* Daemon.create, Daemon.Cleanup and the handling of the event stream
\* taken on their own
side == <<cr, cu, stream>>

vars == <<c, ctr, rm, backend, q, waiter, clientLock, containerLock,
          pc, req, ret, tlog, delivered, hist, cr, cu, stream>>


(* ----------------------- StateInfo and events ------------------------- *)

\* libcontainerd.StateInfo, plus n: the position of the event or start
\* operation it reports in the order in which they occurred (history)
StateInfo(state, exitCode, oomKilled, processID, n) ==
    [State |-> state, ExitCode |-> exitCode, OOMKilled |-> oomKilled,
     ProcessID |-> processID, n |-> n]

Event(type, pid, status) == [Type |-> type, Pid |-> pid, Status |-> status]

(* ------------- the state-changed callback (spec, section 3) ----------- *)

\* a callback that does not record a Start
SetRunningNot(cc) == cc

\* spec: the Orchestrator translates a StateInfo into Container flag
\* updates.  restarting excludes running; a paused container is not
\* counted as running; Exit records the exit code.
SetRunning(cc) ==
    [cc EXCEPT !.Running = TRUE, !.Paused = FALSE, !.Restarting = FALSE]

SetStopped(cc, exitCode) ==
    [cc EXCEPT !.Running = FALSE, !.Paused = FALSE, !.Restarting = FALSE,
               !.ExitCode = exitCode]

SetRestarting(cc, exitCode) ==
    [cc EXCEPT !.Running = FALSE, !.Paused = FALSE, !.Restarting = TRUE,
               !.ExitCode = exitCode]

SetPaused(cc) == [cc EXCEPT !.Paused = TRUE, !.Running = FALSE]

SetResumed(cc) == [cc EXCEPT !.Paused = FALSE, !.Running = TRUE]

StateChanged(cc, st) ==
    CASE st.State = "start"   -> SetRunning(cc)
      [] st.State = "exit"    -> SetStopped(cc, st.ExitCode)
      [] st.State = "restart" -> SetRestarting(cc, st.ExitCode)
      [] st.State = "pause"   -> SetPaused(cc)
      [] st.State = "resume"  -> SetResumed(cc)
      [] OTHER                -> cc      \* oom, exit-process: flags unchanged

(* ---------------- restart policy evaluator (spec, 4.3) ---------------- *)

\* on-failure(max=1): the retry budget of the on-failure policy
MaximumRetryCount == 1
\* backoff, in units of the default delay: doubles up to a ceiling
DefaultTimeout == 1
BackoffCeiling == 2

NextTimeout(t) ==
    IF t = 0 THEN DefaultTimeout
    ELSE IF 2 * t > BackoffCeiling THEN BackoffCeiling ELSE 2 * t

\* spec: shouldRestart=false if the policy is never, if the stop was
\* operator-initiated, or if on-failure has exhausted its retry budget
PolicySaysRestart(rmv, exitCode, manualStop) ==
    CASE rmv.policy = "no"             -> FALSE
      [] rmv.policy = "always"         -> ~manualStop
      [] rmv.policy = "unless-stopped" -> ~manualStop
      [] rmv.policy = "on-failure"     ->
            /\ ~manualStop
            /\ exitCode # 0
            /\ rmv.restartCount < MaximumRetryCount

\* spec: the evaluator owns one cancellable wait; asked again while that
\* wait is pending it reports an error.  Result: the decision and the
\* restart manager's next state.
ShouldRestart(rmv, exitCode, manualStop) ==
    IF rmv.active
    THEN [restart |-> FALSE, err |-> TRUE, rm |-> rmv]
    ELSE IF PolicySaysRestart(rmv, exitCode, manualStop)
         THEN [restart |-> TRUE, err |-> FALSE,
               rm |-> [rmv EXCEPT !.restartCount = @ + 1,
                                  !.timeout = NextTimeout(@),
                                  !.active = TRUE]]
         ELSE [restart |-> FALSE, err |-> FALSE, rm |-> rmv]

(* ------------------- libcontainerd container -------------------------- *)

\* container.clean: remove the shadow's directory unless
\* LIBCONTAINERD_NOCLEAN=1 or the directory is already gone
clean(cv) ==
    IF cv.noClean THEN cv
    ELSE IF ~cv.dir THEN cv
    ELSE [cv EXCEPT !.dir = FALSE]

\* container.cleanProcess: forget an additional process
cleanProcess(cv, id) == [cv EXCEPT !.processes = @ \ {id}]

\* client.deleteContainer / client.appendContainer (spec: the registry)
deleteContainer(cv) == [cv EXCEPT !.registered = FALSE]
appendContainer(cv) == [cv EXCEPT !.registered = TRUE]

\* a handler that takes every exit for the exit of the container
NewStateInfoAnyPid(e, cv, n) ==
    StateInfo(e.Type, e.Status, e.Type = "exit" /\ cv.oom, "", n)

\* handleEvent, lines 175-186: the StateInfo built for a recognised event
NewStateInfo(e, cv, n) ==
    LET st0 == StateInfo(e.Type, e.Status, e.Type = "exit" /\ cv.oom, "", n)
    IN  IF e.Type = "exit" /\ e.Pid # InitFriendlyName
        THEN [st0 EXCEPT !.ProcessID = e.Pid, !.State = "exit-process"]
        ELSE st0

\* handleEvent, line 180-182: OOM is remembered on the shadow
NoteOOM(e, cv) == IF e.Type = "oom" THEN [cv EXCEPT !.oom = TRUE] ELSE cv

\* handleEvent, line 187: is the restart manager consulted
ConsultsRestartManager(st, cv) == st.State = "exit" /\ cv.restartManager

\* a handler that takes every exit of the container for a restart, whatever
\* the restart manager answered
DecideStateAlwaysRestart(st, d) ==
    IF st.State = "exit" THEN [st EXCEPT !.State = "restart"] ELSE st

\* handleEvent, lines 187-194: the restart decision applied to st
\* (d is ShouldRestart's result)
DecideState(st, d) ==
    IF ~d.err /\ d.restart THEN [st EXCEPT !.State = "restart"] ELSE st

\* a handler that cleans the directory on exit but leaves the shadow in the
\* client's registry
ShadowAfterEventKeepsShadow(st, cv) ==
    CASE st.State = "restart"      -> deleteContainer([cv EXCEPT !.restarting = TRUE])
      [] st.State = "exit"         -> clean(cv)
      [] st.State = "exit-process" -> cleanProcess(cv, st.ProcessID)
      [] OTHER                     -> cv

\* handleEvent, lines 193-194 and 220-226: the shadow after the event
ShadowAfterEvent(st, cv) ==
    CASE st.State = "restart"      -> deleteContainer([cv EXCEPT !.restarting = TRUE])
      [] st.State = "exit"         -> deleteContainer(clean(cv))
      [] st.State = "exit-process" -> cleanProcess(cv, st.ProcessID)
      [] OTHER                     -> cv

\* a handler that signals the restart but starts no goroutine for it
SpawnWaiterNever(w, st) == w

\* handleEvent, lines 195-214: the goroutine started for a restart; it
\* captures st
SpawnWaiter(w, st) ==
    IF st.State = "restart" THEN [state |-> "waiting", st |-> st] ELSE w

\* an entry of the delivery queue: the closure handed to q.append.  st is
\* the local variable of handleEvent the closure captured; ev names that
\* variable (the closure of the restart waiter shares it).
QEntry(st, ev) == [st |-> st, ev |-> ev]


(* ----------------------- error messages ------------------------------- *)

\* An error, by what containerStart reads of its text: nf = it contains
\* "executable file not found", "no such file or directory" or "system
\* cannot find the file specified"; eacces = it contains
\* syscall.EACCES.Error(), "permission denied".
Msg(kind, nf, eacces) == [kind |-> kind, nf |-> nf, eacces |-> eacces]
NoMsg == Msg("none", FALSE, FALSE)

\* the errors container.start can return from the backend or the pipes
CreateErrors == { Msg("create", nf, ea) : nf \in BOOLEAN, ea \in BOOLEAN }

\* fmt.Errorf("Container command '%s' not found or does not exist.", Path)
\* and ("Container command '%s' could not be invoked.", Path): the text
\* holds the command path, and so whatever the path holds
NotFoundError(cc) == Msg("notfound", FALSE, cc.PathEACCES)
NotInvokedError(cc) == Msg("notinvoked", FALSE, cc.PathEACCES)

\* containerStart, lines 165-175: r = [c, err]
ClassifyNotFound(r) ==
    IF r.err.nf
    THEN [c |-> [r.c EXCEPT !.ExitCode = 127], err |-> NotFoundError(r.c)]
    ELSE r

ClassifyNotInvoked(r) ==
    IF r.err.eacces
    THEN [c |-> [r.c EXCEPT !.ExitCode = 126], err |-> NotInvokedError(r.c)]
    ELSE r

Classify(cc, err) == ClassifyNotInvoked(ClassifyNotFound([c |-> cc, err |-> err]))

(* ----------------------- daemon/start.go ------------------------------ *)

\* spec: "reset transient runtime flags"
Reset(cc) == [cc EXCEPT !.Running = FALSE, !.Paused = FALSE, !.Restarting = FALSE]

\* Daemon.Cleanup, lines 189-212
Cleanup(cc) == [cc EXCEPT !.Network = FALSE, !.BaseFS = FALSE]

\* a deferred function that leaves the exit code as it finds it
DeferredOnErrorKeepsCode(cc) == Cleanup([cc EXCEPT !.HasError = TRUE])

\* containerStart, lines 114-129: the deferred function on an error
DeferredOnError(cc) ==
    Cleanup([cc EXCEPT !.HasError = TRUE,
                       !.ExitCode = IF @ = 0 THEN 128 ELSE @])

\* a containerStart whose deferred function is in place before the checks
OnRemovalReturnDeferred(cc) == DeferredOnError(cc)

\* containerStart, lines 108-114: the return for a container that is dead
\* or being removed comes before the deferred function is installed, and
\* leaves the container as it is
OnRemovalReturn(cc) == cc

\* containerStart, lines 124-127: the exitCode attribute of the "die" event
\* logged by the deferred function, which leaves the container as cc
DieExitCode(cc) == cc.ExitCode

\* containerStart, lines 134-158: what the steps before Create leave on
\* the container when the step `fail` fails ("none": all succeed)
Prepared(cc, fail) ==
    LET mounted  == IF fail = "mount" THEN cc ELSE [cc EXCEPT !.BaseFS = TRUE]
        attached == IF fail \in {"mount", "network"} THEN mounted
                    ELSE [mounted EXCEPT !.Network = TRUE]
    IN  attached

\* containerStart, lines 131-158: lifecycle events logged when a step
\* before Create fails, before the deferred function runs
EventsOnPrepareError == <<>>
\* containerStart, lines 177-181: when Create fails
EventsOnCreateError == <<"start">>
\* containerStart, line 127
EventsDeferred == <<"die">>

\* containerStart, lines 114-129: the calls the deferred function makes when
\* containerStart returns an error, in order
DeferredCalls == <<"SetError", "ToDisk", "Cleanup", "die">>
\* containerStart, lines 177-180: the calls made when Create failed
CreateErrorCalls == <<"Reset", "start">>

\* what a start request returned: kind is "nil", "paused" (line 30),
\* "notModified" (line 36), "removal" (line 109) or "err"; for "err", the
\* error, the step that failed, the error that step gave, and the exit
\* code left on the container
Ret(kind, err, step, raw, exitCode) ==
    [kind |-> kind, err |-> err, step |-> step, raw |-> raw, exitCode |-> exitCode]
RetOf(kind) == Ret(kind, NoMsg, "none", NoMsg, 0)
NoRet == RetOf("none")


(* ----------------------- container.start ------------------------------ *)

\* The part of the state container.start works on.
World(cv, cc, bk, dl, h) ==
    [ctr |-> cv, c |-> cc, backend |-> bk, delivered |-> dl, hist |-> h]

\* container.start, lines 101-140: up to the create RPC being sent.
\* out: "specErr" = ctr.spec() fails, "fifoErr" = openFifos fails, "ok".
\* status: "nil"/"err" = start returned that, "rpc" = the RPC is in flight.
startIssue(w, out, err) ==
    CASE out = "specErr" -> [w |-> w, status |-> "nil", err |-> NoMsg]
      [] out = "fifoErr" -> [w |-> w, status |-> "err", err |-> err]
      [] OTHER ->
           [w |-> [w EXCEPT !.ctr = appendContainer(@),
                            !.hist.rpc = @ + 1],
            status |-> "rpc", err |-> NoMsg]

\* container.start, lines 140-157: the RPC's answer (rpcErr = NoMsg: a
\* system process ID), AttachStreams, and the Start StateInfo handed to
\* backend.StateChanged by start itself.
startFinish(w, rpcErr, attachOk) ==
    IF rpcErr # NoMsg
    THEN [w |-> w, err |-> rpcErr]
    ELSE LET n  == w.hist.clock + 1
             w1 == [w EXCEPT !.backend.running = TRUE,
                             !.hist.clock = n]
         IN  IF ~attachOk
             THEN [w |-> w1, err |-> Msg("create", FALSE, FALSE)]
             ELSE LET st == StateInfo("start", 0, FALSE, "", n)
                  IN  [w |-> [w1 EXCEPT !.ctr.systemPid = 1,
                                        !.c = StateChanged(@, st),
                                        !.delivered = Append(@, st)],
                       err |-> NoMsg]

\* spec: Create hands the container's ID a shadow record holding the bundle
\* directory (with the stored spec) and the restart manager, then starts it
newContainer(cv) ==
    [cv EXCEPT !.dir = TRUE, !.oom = FALSE, !.restarting = FALSE,
               !.processes = {}, !.restartManager = TRUE, !.systemPid = 0]

(* ------------------------------ Init ----------------------------------- *)

NoSt == StateInfo("none", 0, FALSE, "", 0)
NoWaiter == [state |-> "none", st |-> NoSt]
NoReq == [entry |-> "none", hc |-> "nil", pausedAll |-> FALSE,
          runningAll |-> FALSE, mutated |-> FALSE, issued |-> FALSE,
          calls |-> <<>>, die |-> <<>>]

\* The configurations a run starts from: the restart policy the container
\* was created with, whether LIBCONTAINERD_NOCLEAN=1 is set, whether the
\* command path holds the text "permission denied", whether the container is
\* marked for removal or dead, and whether it starts out stopped (as create
\* leaves it) or running (as a successful start leaves it).
Config(policy, noClean, pathEACCES, gone, started) ==
    [policy |-> policy, noClean |-> noClean, pathEACCES |-> pathEACCES,
     gone |-> gone, started |-> started]

InitConfigs ==
    { Config(p, FALSE, FALSE, "no", s) : p \in {"no", "always", "on-failure"}, s \in BOOLEAN }
    \cup { Config("no", TRUE, FALSE, "no", TRUE) }
    \cup { Config("no", FALSE, TRUE, "no", FALSE) }
    \cup { Config("no", FALSE, FALSE, g, FALSE) : g \in {"removal", "dead"} }

NoCreate == [pc |-> "none"]
NoCleanup == [pc |-> "none"]
NoStream == [n |-> 0]

\* threads: the start requests of the run; events: the number of backend
\* events the event-ingestion thread handles in the run
InitLifecycleOf(configs, threads, events) ==
    /\ \E cfg \in configs :
         /\ c = [Running |-> cfg.started, Paused |-> FALSE, Restarting |-> FALSE,
                 RemovalInProgress |-> (cfg.gone = "removal"),
                 Dead |-> (cfg.gone = "dead"),
                 ExitCode |-> 0, HasError |-> FALSE,
                 BaseFS |-> cfg.started, Network |-> cfg.started,
                 HostConfig |-> "create", SecurityOpts |-> "create",
                 Networks |-> "set", PathEACCES |-> cfg.pathEACCES]
         /\ ctr = [registered |-> cfg.started, restarting |-> FALSE, oom |-> FALSE,
                   dir |-> cfg.started, processes |-> {},
                   restartManager |-> cfg.started,
                   systemPid |-> IF cfg.started THEN 1 ELSE 0,
                   noClean |-> cfg.noClean]
         /\ rm = [policy |-> cfg.policy, restartCount |-> 0, timeout |-> 0,
                  active |-> FALSE]
         /\ backend = [running |-> cfg.started, paused |-> FALSE, execs |-> {}]
    /\ q = <<>>
    /\ waiter = NoWaiter
    /\ clientLock = Free
    /\ containerLock = Free
    /\ pc = [t \in threads |-> "idle"]
    /\ req = [t \in threads |-> NoReq]
    /\ ret = [t \in threads |-> NoRet]
    /\ tlog = [t \in threads |-> <<>>]
    /\ delivered = <<>>
    /\ hist = [clock |-> 0, nEvents |-> 0, budget |-> events, rpc |-> 0,
               handled |-> <<>>,
               cleans |-> <<>>, waiterStarts |-> <<>>, cancelled |-> <<>>]

InitLifecycle(configs) == InitLifecycleOf(configs, Threads, MaxEvents)

Init ==
    /\ InitLifecycle(InitConfigs)
    /\ cr = NoCreate
    /\ cu = NoCleanup
    /\ stream = NoStream

(* ------------------- history kept for each request -------------------- *)

Active(t) == pc[t] \notin {"idle", "done"}

\* has the container been paused / running from the moment a request was
\* made up to now, whatever the other threads did to it meanwhile
Observe(rq, cc) ==
    [t \in DOMAIN rq |->
        IF Active(t)
        THEN [rq[t] EXCEPT !.pausedAll = @ /\ cc.Paused,
                           !.runningAll = @ /\ cc.Running]
        ELSE rq[t]]


(* --------------------- the execution backend (spec) ------------------- *)

\* spec, section 6: the backend reports {Exit, Pause, Resume, OOM} events of
\* a container it runs, in emission order; other event types exist.
\* Can the backend emit e now, and what it is left with.
BackendEmits(bk, e) ==
    /\ bk.running
    /\ e.Type = "exit" => (e.Pid = InitFriendlyName \/ e.Pid \in bk.execs)
    /\ e.Type = "pause" => ~bk.paused
    /\ e.Type = "resume" => bk.paused

BackendAfter(bk, e) ==
    CASE e.Type = "exit" /\ e.Pid = InitFriendlyName ->
            [running |-> FALSE, paused |-> FALSE, execs |-> {}]
      [] e.Type = "exit"   -> [bk EXCEPT !.execs = @ \ {e.Pid}]
      [] e.Type = "pause"  -> [bk EXCEPT !.paused = TRUE]
      [] e.Type = "resume" -> [bk EXCEPT !.paused = FALSE]
      [] OTHER             -> bk

Events ==
    { Event("exit", InitFriendlyName, s) : s \in ExitStatuses }
    \cup { Event(ty, InitFriendlyName, 0) : ty \in {"pause", "resume", "oom"} }

(* --------------------------- handleEvent ------------------------------ *)

\* a handler whose switch takes every event type
RecognisedAny(e) == TRUE

\* handleEvent, line 174: the event types the switch names
Recognised(e) == e.Type \in {"exit", "pause", "resume", "oom"}

\* history: an event handleEvent handled and the StateInfo it decided on
Handled(e, st) == [e |-> e, st |-> st]

\* container.handleEvent, lines 170-245, for the next event of the backend.
\* The event-ingestion thread hands an event to the shadow registered for
\* its container; the handler runs under the client's lock.
HandleEvent(e) ==
    /\ hist.nEvents < hist.budget
    /\ BackendEmits(backend, e)
    /\ ctr.registered
    /\ clientLock = Free
    /\ backend' = BackendAfter(backend, e)
    /\ IF Recognised(e)
       THEN LET n   == hist.clock + 1
                st0 == NewStateInfo(e, ctr, n)
                cv1 == NoteOOM(e, ctr)
                ask == ConsultsRestartManager(st0, cv1)
                d   == IF ask THEN ShouldRestart(rm, e.Status, FALSE)
                       ELSE [restart |-> FALSE, err |-> FALSE, rm |-> rm]
                st  == DecideState(st0, d)
            IN  /\ ctr' = ShadowAfterEvent(st, cv1)
                /\ rm' = d.rm
                /\ waiter' = SpawnWaiter(waiter, st)
                /\ q' = Append(q, QEntry(st, n))
                /\ hist' = [hist EXCEPT !.clock = n, !.nEvents = @ + 1,
                                        !.handled = Append(@, Handled(e, st)),
                                        !.cleans = IF st.State = "exit" THEN Append(@, n) ELSE @]
       ELSE /\ hist' = [hist EXCEPT !.nEvents = @ + 1]
            /\ UNCHANGED <<ctr, rm, waiter, q>>
    /\ UNCHANGED <<c, clientLock, containerLock, pc, req, ret, tlog, delivered>>
    /\ UNCHANGED side

(* ------------------------- delivery queue ------------------------------ *)

\* spec: the per-container serialized delivery queue runs the closures in
\* the order they were appended; the closure of handleEvent (lines 227-239)
\* calls backend.StateChanged with the value st has then.  The callback
\* mutates the Container under the container's lock.
Deliver ==
    /\ q # <<>>
    /\ containerLock = Free
    /\ LET st == Head(q).st
       IN  /\ c' = StateChanged(c, st)
           /\ delivered' = Append(delivered, st)
           /\ req' = Observe(req, StateChanged(c, st))
    /\ q' = Tail(q)
    /\ UNCHANGED <<ctr, rm, backend, waiter, clientLock, containerLock, pc,
                   ret, tlog, hist>>
    /\ UNCHANGED side

(* ---------------- the restart waiter of handleEvent -------------------- *)

\* the closures that captured the variable st of the event numbered ev see
\* what the waiter writes to it (line 201)
WriteShared(qq, ev, state) ==
    [i \in 1..Len(qq) |->
        IF qq[i].ev = ev THEN [qq[i] EXCEPT !.st.State = state] ELSE qq[i]]

\* handleEvent, lines 196-210: the wait was cancelled (spec: an explicit
\* stop or removal cancels the pending wait)
WaitCanceled ==
    /\ waiter.state = "waiting"
    /\ clientLock = Free
    /\ LET st == [waiter.st EXCEPT !.State = "exit"]
       IN  /\ q' = Append(WriteShared(q, st.n, "exit"), QEntry(st, st.n))
           /\ ctr' = clean([ctr EXCEPT !.restarting = FALSE])
    /\ rm' = [rm EXCEPT !.active = FALSE]
    /\ waiter' = NoWaiter
    /\ hist' = [hist EXCEPT !.cleans = Append(@, waiter.st.n),
                            !.cancelled = Append(@, waiter.st.n)]
    /\ UNCHANGED <<c, backend, clientLock, containerLock, pc, req, ret, tlog,
                   delivered>>
    /\ UNCHANGED side

\* handleEvent, lines 196-199 and 212 with start, lines 101-140: the wait
\* elapsed and start is invoked again, up to the create RPC
WaitElapsed(out) ==
    /\ waiter.state = "waiting"
    /\ clientLock = Free
    /\ out # "specErr" => ctr.dir      \* spec() reads the stored spec in ctr.dir
    /\ rm' = [rm EXCEPT !.active = FALSE]
    /\ LET w == World([ctr EXCEPT !.restarting = FALSE], c, backend, delivered,
                      [hist EXCEPT !.waiterStarts = Append(@, waiter.st.n)])
           r == startIssue(w, out, Msg("create", FALSE, FALSE))
       IN  /\ ctr' = r.w.ctr
           /\ hist' = r.w.hist
           /\ IF r.status = "rpc"
              THEN /\ waiter' = [waiter EXCEPT !.state = "rpc"]
                   /\ clientLock' = WaiterId
              ELSE /\ waiter' = NoWaiter
                   /\ UNCHANGED clientLock
    /\ UNCHANGED <<c, backend, q, containerLock, pc, req, ret, tlog, delivered>>
    /\ UNCHANGED side

\* start, lines 140-157, called by the waiter (line 212): its result is
\* dropped
WaiterRpcReturn(rpcErr, attachOk) ==
    /\ waiter.state = "rpc"
    /\ rpcErr = NoMsg => ~backend.running
    /\ LET r == startFinish(World(ctr, c, backend, delivered, hist), rpcErr, attachOk)
       IN  /\ ctr' = r.w.ctr
           /\ c' = r.w.c
           /\ backend' = r.w.backend
           /\ delivered' = r.w.delivered
           /\ hist' = r.w.hist
           /\ req' = Observe(req, r.w.c)
    /\ waiter' = NoWaiter
    /\ clientLock' = Free
    /\ UNCHANGED <<rm, q, containerLock, pc, ret, tlog>>
    /\ UNCHANGED side


(* ----------------------- API start requests --------------------------- *)

Finish(t, r, evs) ==
    /\ pc' = [pc EXCEPT ![t] = "done"]
    /\ ret' = [ret EXCEPT ![t] = r]
    /\ tlog' = [tlog EXCEPT ![t] = @ \o evs]

\* containerStart has run its deferred error function (lines 114-129) and
\* is about to run the deferred container.Unlock() (line 102)
FinishLocked(t, r, evs) ==
    /\ pc' = [pc EXCEPT ![t] = "unlock"]
    /\ ret' = [ret EXCEPT ![t] = r]
    /\ tlog' = [tlog EXCEPT ![t] = @ \o evs]

\* a request arrives: Daemon.ContainerStart(name, hostConfig), lines 20-26,
\* or Daemon.Start(container), lines 89-91.  hc: the hostConfig argument
\* ("nil", or one with a "changed" network mode).
StartCall(t, entry, hc) ==
    /\ pc[t] = "idle"
    /\ entry = "Start" => hc = "nil"
    /\ pc' = [pc EXCEPT ![t] = IF entry = "ContainerStart" THEN "isPaused" ELSE "lock"]
    /\ req' = [req EXCEPT ![t] = [entry |-> entry, hc |-> hc,
                                  pausedAll |-> c.Paused, runningAll |-> c.Running,
                                  mutated |-> FALSE, issued |-> FALSE,
                                  calls |-> <<>>, die |-> <<>>]]
    /\ UNCHANGED <<c, ctr, rm, backend, q, waiter, clientLock, containerLock,
                   ret, tlog, delivered, hist>>
    /\ UNCHANGED side

\* container.IsPaused(), container.IsRunning() as ContainerStart reads them
IsPaused(cc) == cc.Paused
\* a ContainerStart without the check of lines 34-37
IsRunningNever(cc) == FALSE
IsRunning(cc) == cc.Running

\* ContainerStart, lines 29-31
IsPausedCheck(t) ==
    /\ pc[t] = "isPaused"
    /\ IF IsPaused(c)
       THEN Finish(t, RetOf("paused"), <<>>)
       ELSE /\ pc' = [pc EXCEPT ![t] = "isRunning"]
            /\ UNCHANGED <<ret, tlog>>
    /\ UNCHANGED <<c, ctr, rm, backend, q, waiter, clientLock, containerLock,
                   req, delivered, hist>>
    /\ UNCHANGED side

\* ContainerStart, lines 34-37
IsRunningCheck(t) ==
    /\ pc[t] = "isRunning"
    /\ IF IsRunning(c)
       THEN Finish(t, RetOf("notModified"), <<>>)
       ELSE /\ pc' = [pc EXCEPT ![t] = "hostConfig"]
            /\ UNCHANGED <<ret, tlog>>
    /\ UNCHANGED <<c, ctr, rm, backend, q, waiter, clientLock, containerLock,
                   req, delivered, hist>>
    /\ UNCHANGED side

\* ContainerStart, lines 42-64: the container after the deprecated
\* hostConfig-on-start.  fail: the call that fails, "none" when all succeed.
HostConfigFailures == {"none", "setSecurityOptions", "setHostConfig", "ToDisk", "verify"}
ApplyHostConfig(cc, hc, fail) ==
    IF hc = "nil" \/ fail = "setSecurityOptions" THEN cc
    ELSE LET sec  == [cc EXCEPT !.SecurityOpts = "start"]
             host == [sec EXCEPT !.HostConfig = IF hc = "changed" THEN "start" ELSE @]
             net  == IF host.HostConfig # cc.HostConfig
                     THEN [host EXCEPT !.Networks = "nil"] ELSE host
         IN  IF fail = "setHostConfig" THEN sec ELSE net

\* does the call `fail` happen at all for this request
HostConfigFailurePossible(cc, hc, fail) ==
    CASE fail \in {"none", "verify"} -> TRUE
      [] fail = "ToDisk" -> hc = "changed" /\ cc.HostConfig # "start"
      [] OTHER -> hc # "nil"

\* ContainerStart, lines 42-82
HostConfigStep(t, fail) ==
    /\ pc[t] = "hostConfig"
    /\ HostConfigFailurePossible(c, req[t].hc, fail)
    /\ c' = ApplyHostConfig(c, req[t].hc, fail)
    /\ req' = [req EXCEPT ![t].mutated = (c' # c)]
    /\ IF fail = "none"
       THEN /\ pc' = [pc EXCEPT ![t] = "lock"]
            /\ UNCHANGED <<ret, tlog>>
       ELSE Finish(t, Ret("err", Msg(fail, FALSE, FALSE), "hostConfig",
                          Msg(fail, FALSE, FALSE), c'.ExitCode), <<>>)
    /\ UNCHANGED <<ctr, rm, backend, q, waiter, clientLock, containerLock,
                   delivered, hist>>
    /\ UNCHANGED side

\* containerStart, lines 98-158: lock, the checks, and the steps before
\* Create (fail: the step that fails, "none" when all succeed)
ContainerStartLock(t, fail) ==
    /\ pc[t] = "lock"
    /\ containerLock = Free
    /\ IF c.Running
       THEN /\ fail = "none"
            /\ Finish(t, RetOf("nil"), <<>>)
            /\ UNCHANGED <<c, containerLock, req>>
       ELSE IF c.RemovalInProgress \/ c.Dead
       THEN /\ fail = "none"
            /\ Finish(t, RetOf("removal"), <<>>)
            /\ c' = OnRemovalReturn(c)
            /\ UNCHANGED <<containerLock, req>>
       ELSE IF fail = "none"
       THEN /\ c' = Prepared(c, fail)
            /\ containerLock' = t
            /\ pc' = [pc EXCEPT ![t] = "create"]
            /\ req' = [req EXCEPT ![t].mutated = @ \/ (c' # c)]
            /\ UNCHANGED <<ret, tlog>>
       ELSE /\ c' = DeferredOnError(Prepared(c, fail))
            /\ FinishLocked(t, Ret("err", Msg(fail, FALSE, FALSE), fail,
                                Msg(fail, FALSE, FALSE), c'.ExitCode),
                            EventsOnPrepareError \o EventsDeferred)
            /\ req' = [req EXCEPT ![t].mutated = TRUE,
                                  ![t].calls = @ \o DeferredCalls,
                                  ![t].die = Append(@, DieExitCode(c'))]
            /\ containerLock' = t
    /\ UNCHANGED <<ctr, rm, backend, q, waiter, clientLock, delivered, hist>>
    /\ UNCHANGED side

\* containerStart, lines 161-182 and 114-129, once Create has returned
\* err: the container, the request's result and the events it logged
CreateFailed(cc, err) ==
    LET r == Classify(cc, err)
        cc2 == DeferredOnError(Reset(r.c))
    IN  [c |-> cc2,
         ret |-> Ret("err", r.err, "create", err, cc2.ExitCode),
         events |-> EventsOnCreateError \o EventsDeferred,
         calls |-> CreateErrorCalls \o DeferredCalls,
         die |-> DieExitCode(cc2)]

\* containerStart, line 161: containerd.Create (spec: under the client's
\* lock) and start, lines 101-140, up to the create RPC
CreateIssue(t, out, err) ==
    /\ pc[t] = "create"
    /\ clientLock = Free
    /\ LET r == startIssue(World(newContainer(ctr), c, backend, delivered, hist), out, err)
       IN  /\ ctr' = r.w.ctr
           /\ hist' = r.w.hist
           /\ CASE r.status = "rpc" ->
                     /\ pc' = [pc EXCEPT ![t] = "rpc"]
                     /\ req' = [req EXCEPT ![t].issued = TRUE]
                     /\ clientLock' = t
                     /\ UNCHANGED <<c, containerLock, ret, tlog>>
                [] r.status = "nil" ->
                     /\ Finish(t, RetOf("nil"), <<>>)
                     /\ containerLock' = Free
                     /\ UNCHANGED <<c, clientLock, req>>
                [] OTHER ->
                     LET f == CreateFailed(c, r.err)
                     IN  /\ c' = f.c
                         /\ FinishLocked(t, f.ret, f.events)
                         /\ req' = [req EXCEPT ![t].mutated = TRUE,
                                               ![t].calls = @ \o f.calls,
                                               ![t].die = Append(@, f.die)]
                         /\ UNCHANGED <<clientLock, containerLock>>
    /\ UNCHANGED <<rm, backend, q, waiter, delivered>>
    /\ UNCHANGED side

\* start, lines 140-157, then containerStart, lines 161-185
CreateReturn(t, rpcErr, attachOk) ==
    /\ pc[t] = "rpc"
    /\ rpcErr = NoMsg => ~backend.running
    /\ LET r == startFinish(World(ctr, c, backend, delivered, hist), rpcErr, attachOk)
           f == CreateFailed(r.w.c, r.err)
       IN  /\ ctr' = r.w.ctr
           /\ backend' = r.w.backend
           /\ delivered' = r.w.delivered
           /\ hist' = r.w.hist
           /\ IF r.err = NoMsg
              THEN /\ c' = r.w.c
                   /\ Finish(t, RetOf("nil"), <<>>)
                   /\ containerLock' = Free
                   /\ req' = [Observe(req, c') EXCEPT
                                 ![t] = [req[t] EXCEPT !.mutated = TRUE]]
              ELSE /\ c' = f.c
                   /\ FinishLocked(t, f.ret, f.events)
                   /\ UNCHANGED containerLock
                   /\ req' = [Observe(req, c') EXCEPT
                                 ![t] = [req[t] EXCEPT !.mutated = TRUE,
                                                       !.calls = @ \o f.calls,
                                                       !.die = Append(@, f.die)]]
    /\ clientLock' = Free
    /\ UNCHANGED <<rm, q, waiter>>
    /\ UNCHANGED side

\* containerStart, line 102: the deferred container.Unlock() runs after the
\* deferred error function; containerStart returns
ContainerUnlock(t) ==
    /\ pc[t] = "unlock"
    /\ containerLock = t
    /\ pc' = [pc EXCEPT ![t] = "done"]
    /\ containerLock' = Free
    /\ UNCHANGED <<c, ctr, rm, backend, q, waiter, clientLock, req, ret, tlog,
                   delivered, hist>>
    /\ UNCHANGED side

(* ------------------------------ Next ----------------------------------- *)

Next ==
    \/ \E e \in Events : HandleEvent(e)
    \/ Deliver
    \/ WaitCanceled
    \/ \E out \in {"ok", "specErr", "fifoErr"} : WaitElapsed(out)
    \/ \E rpcErr \in {NoMsg} \cup CreateErrors, attachOk \in BOOLEAN :
          WaiterRpcReturn(rpcErr, attachOk)
    \/ \E t \in Threads, entry \in {"ContainerStart", "Start"},
          hc \in {"nil", "changed"} : StartCall(t, entry, hc)
    \/ \E t \in Threads : IsPausedCheck(t)
    \/ \E t \in Threads : IsRunningCheck(t)
    \/ \E t \in Threads, fail \in HostConfigFailures : HostConfigStep(t, fail)
    \/ \E t \in Threads, fail \in {"none", "mount", "network", "spec"} :
          ContainerStartLock(t, fail)
    \/ \E t \in Threads, out \in {"ok", "specErr", "fifoErr"}, err \in CreateErrors :
          CreateIssue(t, out, err)
    \/ \E t \in Threads, rpcErr \in {NoMsg} \cup CreateErrors, attachOk \in BOOLEAN :
          CreateReturn(t, rpcErr, attachOk)
    \/ \E t \in Threads : ContainerUnlock(t)

Spec == Init /\ [][Next]_vars


(* ------------------------------ claims --------------------------------- *)

\* number of positions of seq holding x
Occurrences(seq, x) == Cardinality({i \in 1..Len(seq) : seq[i] = x})

\* the StateInfo values the callback has received, followed by those the
\* queue still holds
Notified == delivered \o [i \in 1..Len(q) |-> q[i].st]

\* positions in Notified / delivered of the StateInfo values of event n
NotifiedOf(n) == {k \in 1..Len(Notified) : Notified[k].n = n}
DeliveredOf(n) == {k \in 1..Len(delivered) : delivered[k].n = n}

\* is a closure of event n still queued
Queued(n) == \E k \in 1..Len(q) : q[k].ev = n

\* events handled so far: exits of the init process, those on which no
\* restart was signalled, those that failed, those that signalled a restart
InitExits ==
    {i \in 1..Len(hist.handled) :
        /\ hist.handled[i].e.Type = "exit"
        /\ hist.handled[i].e.Pid = InitFriendlyName}
TerminalExits == {i \in InitExits : hist.handled[i].st.State = "exit"}
FailedExits == {i \in InitExits : hist.handled[i].e.Status # 0}
RestartExits == {i \in InitExits : hist.handled[i].st.State = "restart"}
OOMBefore(i) == \E j \in 1..(i - 1) : hist.handled[j].e.Type = "oom"

\* the event handleEvent has just handled (in the new state of a step)
JustHandled == Len(hist'.handled) = Len(hist.handled) + 1
LastHandled == hist'.handled[Len(hist'.handled)]

\* C1: in every reachable state at most one of the container's flags
\* running, paused and restarting is true.
C1_AtMostOneFlag ==
    /\ ~(c.Running /\ c.Paused)
    /\ ~(c.Running /\ c.Restarting)
    /\ ~(c.Paused /\ c.Restarting)

\* C2: a start request made on a paused container, through either entry
\* point, that nobody resumes meanwhile never issues the create RPC and
\* returns the error "Cannot start a paused container".
C2_PausedStartRejected ==
    \A t \in Threads :
        req[t].pausedAll =>
            /\ ~req[t].issued
            /\ pc[t] = "done" => ret[t].kind = "paused"

\* C3 as stated: a start request made on a running container, through
\* either entry point, with or without a hostConfig, returns "not modified",
\* changes nothing of the container and issues no create RPC.
C3_RunningStartNotModified ==
    \A t \in Threads :
        req[t].runningAll =>
            /\ ~req[t].issued
            /\ ~req[t].mutated
            /\ pc[t] = "done" => ret[t].kind = "notModified"

\* C3 amended: a start request made on a running container changes nothing
\* of the container and issues no create RPC; ContainerStart, with or
\* without a hostConfig, returns "not modified", Daemon.Start returns nil.
C3_RunningStartNoEffect ==
    \A t \in Threads :
        req[t].runningAll =>
            /\ ~req[t].issued
            /\ ~req[t].mutated
            /\ pc[t] = "done" =>
                  ret[t].kind = IF req[t].entry = "ContainerStart"
                                THEN "notModified" ELSE "nil"

\* C3's case: ContainerStart with a hostConfig has returned for a container
\* that was running throughout
C3_Witness ==
    \E t \in Threads :
        /\ pc[t] = "done"
        /\ req[t].runningAll
        /\ req[t].entry = "ContainerStart"
        /\ req[t].hc = "changed"
        /\ ret[t].kind = "notModified"

\* C4: the callback receives the StateInfo values of one container in the
\* order in which the events and start operations they report occurred: a
\* Restart before the Start of the restart that follows it, and none
\* overtaken by a later one.
C4_DeliveredInOrder ==
    \A i, j \in 1..Len(delivered) :
        i < j => delivered[i].n <= delivered[j].n

\* C5: for every restart wait that was cancelled, start was not invoked for
\* that cycle, clean was called exactly once, and, once the queue holds no
\* more closure of that event, the callback has received exactly one Exit
\* for it.
C5_CancelledWait ==
    \A i \in 1..Len(hist.cancelled) :
        LET n == hist.cancelled[i]
        IN  /\ Occurrences(hist.waiterStarts, n) = 0
            /\ Occurrences(hist.cleans, n) = 1
            /\ ~Queued(n) =>
                  Cardinality({k \in DeliveredOf(n) : delivered[k].State = "exit"}) = 1

\* C6: for every exit of the init process with status s on which no restart
\* was signalled, exactly one StateInfo is handed to the callback's queue:
\* an Exit with exit code s, and OOMKilled = false when no OOM event came
\* before; clean was called once; and the handler leaves the shadow out of
\* the registry and its directory removed (unless LIBCONTAINERD_NOCLEAN=1).
C6_TerminalExitNotified ==
    \A i \in TerminalExits :
        LET h == hist.handled[i]
            n == h.st.n
        IN  /\ Cardinality(NotifiedOf(n)) = 1
            /\ \A k \in NotifiedOf(n) :
                  /\ Notified[k].State = "exit"
                  /\ Notified[k].ExitCode = h.e.Status
                  /\ Notified[k].ProcessID = ""
                  /\ ~OOMBefore(i) => ~Notified[k].OOMKilled
            /\ Occurrences(hist.cleans, n) = 1

C6_TerminalExitStep ==
    (JustHandled /\ LastHandled.e.Type = "exit"
        /\ LastHandled.e.Pid = InitFriendlyName
        /\ LastHandled.st.State = "exit")
    => /\ ~ctr'.registered
       /\ ~ctr'.noClean => ~ctr'.dir
       /\ clientLock' = Free

C7_OneRestartCycle ==
    rm.policy = "on-failure" =>
        /\ \A i \in FailedExits :
              hist.handled[i].st.State =
                  IF \E j \in FailedExits : j < i THEN "exit" ELSE "restart"
        /\ Cardinality(RestartExits) <= 1
        /\ Len(hist.waiterStarts) <= 1
        /\ \A k \in 1..Len(hist.waiterStarts) :
              \E i \in RestartExits : hist.handled[i].st.n = hist.waiterStarts[k]

C7_CycleStep ==
    rm.policy = "on-failure" =>
        /\ (JustHandled /\ LastHandled.e.Type = "exit"
               /\ LastHandled.e.Pid = InitFriendlyName)
           => ~ctr'.registered
        /\ (Len(hist'.waiterStarts) > Len(hist.waiterStarts) /\ hist'.rpc > hist.rpc)
           => ctr'.registered

C7_OnFailureMaxOne ==
    []C7_OneRestartCycle /\ [][C7_CycleStep]_vars

\* C7's case: two exits with status 1; the first was restarted and start
\* was invoked for it, the second is terminal and its Exit was delivered
C7_Witness ==
    /\ rm.policy = "on-failure"
    /\ Cardinality(FailedExits) = 2
    /\ Len(hist.waiterStarts) = 1
    /\ \E i \in FailedExits :
          /\ hist.handled[i].st.State = "exit"
          /\ \E k \in DeliveredOf(hist.handled[i].st.n) : delivered[k].State = "exit"
    /\ ~ctr.registered

\* C8: with policy always and every exit reporting status 1, every exit
\* that signalled a restart has its wait pending, or cancelled, or elapsed,
\* and start was invoked by the waiter exactly once for the last and never
\* for the others; the waits imposed never decrease and never exceed the
\* ceiling.
EveryExitFails == \A i \in InitExits : hist.handled[i].e.Status = 1
WaitPending(n) == waiter.state = "waiting" /\ waiter.st.n = n

C8_StartOncePerCycle ==
    (rm.policy = "always" /\ EveryExitFails) =>
        /\ \A i \in RestartExits :
              LET n == hist.handled[i].st.n
              IN  Occurrences(hist.waiterStarts, n) =
                      IF WaitPending(n) \/ Occurrences(hist.cancelled, n) > 0
                      THEN 0 ELSE 1
        /\ Len(hist.waiterStarts) <= Cardinality(RestartExits)
        /\ rm.timeout <= BackoffCeiling

C8_WaitsStep == rm.policy = "always" => rm'.timeout >= rm.timeout

C9_CreateErrorClassified ==
    \A t \in Threads :
        (pc[t] = "done" /\ ret[t].kind = "err" /\ ret[t].step = "create"
            /\ req[t].issued) =>
            CASE ret[t].raw.nf ->
                    ret[t].exitCode = 127 /\ ret[t].err.kind = "notfound"
              [] ret[t].raw.eacces ->
                    ret[t].exitCode = 126 /\ ret[t].err.kind = "notinvoked"
              [] OTHER -> ret[t].err = ret[t].raw

\* C10: a start that failed at the mount, the network attachment, the spec
\* construction or Create has logged a "start" event when it returns.
C10_FailedStartLogsStart ==
    \A t \in Threads :
        (pc[t] = "done" /\ ret[t].kind = "err"
            /\ ret[t].step \in {"mount", "network", "spec", "create"}) =>
            \E k \in 1..Len(tlog[t]) : tlog[t][k] = "start"

\* C11: a containerStart that has failed after its checks (at the mount, the
\* network attachment, the spec construction or Create) has left a non-zero
\* exit code on the container, called Cleanup exactly once, and logged
\* exactly one "die" event, carrying that exit code, after any "start" event
\* it logged; every event it logs is logged while it holds the container's
\* lock, which it releases afterwards.
FailedContainerStart(t) ==
    /\ pc[t] \in {"unlock", "done"}
    /\ ret[t].kind = "err"
    /\ ret[t].step \in {"mount", "network", "spec", "create"}

C11_DieRecorded ==
    \A t \in Threads :
        FailedContainerStart(t) =>
            /\ ret[t].exitCode # 0
            /\ Occurrences(req[t].calls, "Cleanup") = 1
            /\ Occurrences(tlog[t], "die") = 1
            /\ req[t].die = <<ret[t].exitCode>>
            /\ \A i, j \in 1..Len(tlog[t]) :
                  (tlog[t][i] = "start" /\ tlog[t][j] = "die") => i < j
            /\ pc[t] = "unlock" =>
                  /\ containerLock = t
                  /\ c.ExitCode = ret[t].exitCode
                  /\ ~c.Network /\ ~c.BaseFS

C11_LoggedUnderLock ==
    \A t \in Threads : tlog'[t] # tlog[t] => (containerLock' = t /\ pc'[t] = "unlock")

C11_FailedStartDies ==
    []C11_DieRecorded /\ [][C11_LoggedUnderLock]_vars

\* C11's case: a request whose Create failed with a "not found" message has
\* returned after logging "start" then "die" with exit code 127
C11_Witness ==
    \E t \in Threads :
        /\ pc[t] = "done"
        /\ ret[t].step = "create"
        /\ ret[t].exitCode = 127
        /\ tlog[t] = <<"start", "die">>
        /\ req[t].die = <<127>>
        /\ containerLock = Free

(* ----------------------------- Daemon.create --------------------------- *)

\* Daemon.create, lines 527-695: the calls that can fail, in order
CreateSteps ==
    <<"GetImage", "mergeAndVerifyConfig", "newContainer",
      "setSecurityOptions", "setRWLayer", "Register", "GetRootUIDGID",
      "MkdirAs", "setHostConfig", "createContainerPlatformSpecificSettings",
      "updateContainerNetworkSettings", "ToDiskLocking">>

StepIndex(step) == CHOOSE i \in 1..Len(CreateSteps) : CreateSteps[i] = step

\* line 535: GetImage is called only when an image is named
FirstStep(image) == IF image = "" THEN "mergeAndVerifyConfig" ELSE "GetImage"

\* a create that defers no forced removal
RemovalNotDeferred(step) == FALSE

\* lines 575-581: the deferred forced removal is in place for every call
\* after newContainer
RemovalDeferred(step) == StepIndex(step) > StepIndex("newContainer")

\* lines 615-621: the deferred removeMountPoints is in place for every call
\* after setHostConfig
MountPointsDeferred(step) == StepIndex(step) > StepIndex("setHostConfig")

\* what a call that succeeds provisions: setRWLayer (lines 712-731) a
\* writable layer, Register the index entry, MkdirAs the root directory,
\* setHostConfig and createContainerPlatformSpecificSettings mount points
StepDone(r, step) ==
    CASE step = "newContainer" -> [r EXCEPT !.container = TRUE]
      [] step = "setRWLayer"   -> [r EXCEPT !.rwLayer = TRUE]
      [] step = "Register"     -> [r EXCEPT !.registered = TRUE]
      [] step = "MkdirAs"      -> [r EXCEPT !.root = TRUE]
      [] step = "setHostConfig" -> [r EXCEPT !.mountPoints = @ \cup {"hostConfig"}]
      [] step = "createContainerPlatformSpecificSettings" ->
               [r EXCEPT !.mountPoints = @ \cup {"volumes"}]
      [] OTHER -> r

\* the calls that may have provisioned part of their work when they fail
LeavesPartialWork(step) ==
    step \in {"setHostConfig", "createContainerPlatformSpecificSettings"}

\* what a call that fails leaves: nothing, or (partial) what it was adding
StepFailed(r, step, partial) ==
    IF partial /\ LeavesPartialWork(step) THEN StepDone(r, step) ELSE r

\* the deferred functions left to run when create returns retErr from `step`
AfterFailure(step) ==
    IF MountPointsDeferred(step) THEN "removeMountPoints"
    ELSE IF RemovalDeferred(step) THEN "ContainerRm"
    ELSE "return"

\* spec: removeMountPoints(container, true) releases the container's mount
\* points; on an error it leaves them
removeMountPoints(r, ok) ==
    IF ok THEN [r EXCEPT !.mountPoints = {}]
    ELSE [r EXCEPT !.logged = Append(@, "removeMountPoints")]

\* spec: ContainerRm(id, ForceRemove) looks the container up in the index
\* (an error when it is not there), and removes it with what it holds; on an
\* error it leaves the container as it is
ContainerRm(r, ok) ==
    IF ~r.registered \/ ~ok
    THEN [r EXCEPT !.rmCalls = @ + 1, !.logged = Append(@, "ContainerRm")]
    ELSE [r EXCEPT !.rmCalls = @ + 1, !.registered = FALSE, !.mountPoints = {},
                   !.rwLayer = FALSE, !.root = FALSE]

\* Daemon.create(params), line 527
DaemonCreateCall(image) ==
    /\ cr.pc = "idle"
    /\ cr' = [cr EXCEPT !.pc = FirstStep(image), !.image = image]
    /\ UNCHANGED <<lifecycle, cu, stream>>

\* the next call of create, lines 535-690; ok: it succeeds
DaemonCreateStep(ok, partial) ==
    /\ cr.pc \in {CreateSteps[i] : i \in 1..Len(CreateSteps)}
    /\ partial => (~ok /\ LeavesPartialWork(cr.pc))
    /\ LET step == cr.pc
           i == StepIndex(step)
       IN  cr' = IF ok
                 THEN [StepDone(cr, step) EXCEPT
                         !.pc = IF i < Len(CreateSteps) THEN CreateSteps[i + 1]
                                ELSE "logCreate"]
                 ELSE [StepFailed(cr, step, partial) EXCEPT
                         !.pc = AfterFailure(step),
                         !.failed = step,
                         !.retErr = step]
    /\ UNCHANGED <<lifecycle, cu, stream>>

\* lines 615-621, run when create returns an error
DeferredRemoveMountPoints(ok) ==
    /\ cr.pc = "removeMountPoints"
    /\ cr' = [removeMountPoints(cr, ok) EXCEPT !.pc = "ContainerRm"]
    /\ UNCHANGED <<lifecycle, cu, stream>>

\* lines 575-581, run when create returns an error
DeferredContainerRm(ok) ==
    /\ cr.pc = "ContainerRm"
    /\ cr' = [ContainerRm(cr, ok) EXCEPT !.pc = "return"]
    /\ UNCHANGED <<lifecycle, cu, stream>>

\* lines 693-694: create logs "create" and returns the container; or it
\* returns nil and retErr once the deferred functions have run
DaemonCreateReturn ==
    /\ cr.pc \in {"logCreate", "return"}
    /\ cr' = IF cr.pc = "logCreate"
             THEN [cr EXCEPT !.pc = "done", !.events = Append(@, "create"),
                             !.retC = TRUE]
             ELSE [cr EXCEPT !.pc = "done"]
    /\ UNCHANGED <<lifecycle, cu, stream>>

\* the containers a start request can meet are of no matter to create
IdleLifecycle == { Config("no", FALSE, FALSE, "no", FALSE) }

InitCreate ==
    /\ InitLifecycle(IdleLifecycle)
    /\ cr = [pc |-> "idle", image |-> "", container |-> FALSE,
             rwLayer |-> FALSE, registered |-> FALSE, root |-> FALSE,
             mountPoints |-> {}, failed |-> "none", retErr |-> "nil",
             retC |-> FALSE, rmCalls |-> 0, logged |-> <<>>, events |-> <<>>]
    /\ cu = NoCleanup
    /\ stream = NoStream

NextCreate ==
    \/ \E image \in {"", "image"} : DaemonCreateCall(image)
    \/ \E ok \in BOOLEAN, partial \in BOOLEAN : DaemonCreateStep(ok, partial)
    \/ \E ok \in BOOLEAN : DeferredRemoveMountPoints(ok)
    \/ \E ok \in BOOLEAN : DeferredContainerRm(ok)
    \/ DaemonCreateReturn

CreateSpec == InitCreate /\ [][NextCreate]_vars

\* create has returned an error from a call made after / before Register
CreateFailedAt(steps) ==
    /\ cr.pc = "done"
    /\ cr.failed \in steps
AfterRegister == {CreateSteps[i] : i \in (StepIndex("Register") + 1)..Len(CreateSteps)}
BeforeRegister == {CreateSteps[i] : i \in 1..StepIndex("Register")}

C13_PlainReturnBeforeRegister ==
    CreateFailedAt(BeforeRegister) =>
        /\ cr.retErr = cr.failed
        /\ cr.rmCalls = 0
        /\ ~cr.rwLayer
        /\ ~cr.registered /\ ~cr.root /\ cr.mountPoints = {}

(* ----------------------------- Daemon.Cleanup -------------------------- *)

ExecIds == {"exec1", "exec2"}

\* the collaborator calls of Cleanup that can return an error
FallibleCalls ==
    {"releaseNetwork", "UnmountIpcMounts", "conditionalUnmountOnCleanup",
     "GetMountID", "UnmountVolumes"}

Called(s, name) == [s EXCEPT !.calls = Append(@, name)]

\* spec: release network attachment
releaseNetwork(s, fail) ==
    IF fail THEN Called(s, "releaseNetwork")
    ELSE [Called(s, "releaseNetwork") EXCEPT !.network = FALSE]

\* spec: unmount any IPC-related mounts
UnmountIpcMounts(s, fail) ==
    IF fail THEN Called(s, "UnmountIpcMounts")
    ELSE [Called(s, "UnmountIpcMounts") EXCEPT !.ipc = FALSE]

\* spec: attempt filesystem unmount
conditionalUnmountOnCleanup(s, fail) ==
    IF fail THEN Called(s, "conditionalUnmountOnCleanup")
    ELSE [Called(s, "conditionalUnmountOnCleanup") EXCEPT !.fs = FALSE]

\* spec: forced unmount-by-ID
cleanupMountsByID(s) == [Called(s, "cleanupMountsByID") EXCEPT !.fs = FALSE]

\* spec: unregister an auxiliary sub-process
unregisterExecCommand(s, e) ==
    [Called(s, "unregisterExecCommand") EXCEPT !.execs = @ \ {e}]

\* a volume unmount that reports an unmount event whether or not a volume
\* was mounted
UnmountVolumesAlwaysLogs(s, fail) ==
    IF fail
    THEN [Called(s, "UnmountVolumes") EXCEPT !.warnings = @ + 1]
    ELSE [Called(s, "UnmountVolumes") EXCEPT
            !.volumes = FALSE, !.volumeEvents = Append(@, "unmount")]

\* spec: unmount volumes, reporting each unmount through LogVolumeEvent
UnmountVolumes(s, fail) ==
    IF fail
    THEN [Called(s, "UnmountVolumes") EXCEPT !.warnings = @ + 1]
    ELSE IF s.volumes
    THEN [Called(s, "UnmountVolumes") EXCEPT
            !.volumes = FALSE, !.volumeEvents = Append(@, "unmount")]
    ELSE Called(s, "UnmountVolumes")

\* spec: cancel any in-flight attach/stream context
CancelAttachContext(s) == [Called(s, "CancelAttachContext") EXCEPT !.attach = FALSE]

\* start.go 194-200: the unmount, and on its error the forced unmount by the
\* mount id, when the layer store gives one
UnmountStep(s, faults) ==
    LET u == conditionalUnmountOnCleanup(s, "conditionalUnmountOnCleanup" \in faults)
    IN  IF "conditionalUnmountOnCleanup" \in faults
        THEN IF "GetMountID" \in faults
             THEN Called(u, "GetMountID")
             ELSE cleanupMountsByID(Called(u, "GetMountID"))
        ELSE u

\* start.go 202-204: every registered exec command is unregistered
RECURSIVE UnregisterAll(_, _)
UnregisterAll(s, es) ==
    IF es = {} THEN s
    ELSE LET e == CHOOSE x \in es : TRUE
         IN  UnregisterAll(unregisterExecCommand(s, e), es \ {e})

\* start.go 206-210: volumes are unmounted only when BaseFS is set
VolumesStep(s, faults) ==
    IF s.BaseFS THEN UnmountVolumes(s, "UnmountVolumes" \in faults) ELSE s

\* a Cleanup that gives up at the first collaborator error
CleanupStopsOnError(s, faults) ==
    IF "releaseNetwork" \in faults THEN releaseNetwork(s, TRUE)
    ELSE IF "UnmountIpcMounts" \in faults
    THEN UnmountIpcMounts(releaseNetwork(s, FALSE), TRUE)
    ELSE IF "conditionalUnmountOnCleanup" \in faults
    THEN conditionalUnmountOnCleanup(
             UnmountIpcMounts(releaseNetwork(s, FALSE), FALSE), TRUE)
    ELSE LET a == conditionalUnmountOnCleanup(
                      UnmountIpcMounts(releaseNetwork(s, FALSE), FALSE), FALSE)
             b == UnregisterAll(a, a.execs)
         IN  IF b.BaseFS /\ "UnmountVolumes" \in faults
             THEN UnmountVolumes(b, TRUE)
             ELSE CancelAttachContext(VolumesStep(b, faults))

\* Daemon.Cleanup, start.go 189-212: the calls in order, none of whose
\* outcomes is looked at except the unmount's
CleanupRun(s, faults) ==
    LET a == releaseNetwork(s, "releaseNetwork" \in faults)
        b == UnmountIpcMounts(a, "UnmountIpcMounts" \in faults)
        d == UnmountStep(b, faults)
        e == UnregisterAll(d, d.execs)
        f == VolumesStep(e, faults)
    IN  CancelAttachContext(f)

\* what Cleanup acts on: the container and its collaborators
Resources(s) ==
    [network |-> s.network, ipc |-> s.ipc, fs |-> s.fs, execs |-> s.execs,
     BaseFS |-> s.BaseFS, volumes |-> s.volumes, attach |-> s.attach,
     volumeEvents |-> s.volumeEvents]

\* the containers Cleanup is called on: BaseFS is set by the first mount
\* (start.go 134), before anything is mounted under it
CleanupInputs ==
    { [pc |-> "idle", network |-> n, ipc |-> i, fs |-> f, execs |-> es,
       BaseFS |-> b, volumes |-> v, attach |-> a, volumeEvents |-> <<>>,
       calls |-> <<>>, warnings |-> 0, faults |-> fl, runs |-> 0,
       before |-> {}, once |-> <<>>] :
        n \in BOOLEAN, i \in BOOLEAN, f \in BOOLEAN, es \in SUBSET ExecIds,
        b \in BOOLEAN, v \in BOOLEAN, a \in BOOLEAN,
        fl \in SUBSET FallibleCalls }

MaxCleanups == 2

\* daemon.Cleanup(container), start.go 189: one call, which has no result;
\* the collaborators that fail (cu.faults) fail the same way in every call
CleanupCall ==
    /\ cu.pc \in {"idle", "returned"}
    /\ cu.runs < MaxCleanups
    /\ LET r == CleanupRun([cu EXCEPT !.calls = <<>>], cu.faults)
       IN  cu' = [r EXCEPT !.pc = "returned",
                           !.runs = @ + 1,
                           !.before = IF cu.runs = 0 THEN {Resources(cu)} ELSE @,
                           !.once = IF cu.runs = 0 THEN <<Resources(r)>> ELSE @]
    /\ UNCHANGED <<lifecycle, cr, stream>>

InitCleanup ==
    /\ InitLifecycle(IdleLifecycle)
    /\ cr = NoCreate
    /\ stream = NoStream
    /\ cu \in { s \in CleanupInputs : ~s.BaseFS => (~s.fs /\ ~s.volumes) }

NextCleanup == CleanupCall

CleanupSpec == InitCleanup /\ [][NextCleanup]_vars

CleanupReturned == cu.pc = "returned"
FirstCleanup == cu.runs = 1
CleanupBefore == CHOOSE r \in cu.before : TRUE
UnmountFailed == "conditionalUnmountOnCleanup" \in cu.faults

\* the calls Cleanup makes whatever the container and the faults are
AlwaysCalled ==
    /\ Occurrences(cu.calls, "releaseNetwork") = 1
    /\ Occurrences(cu.calls, "UnmountIpcMounts") = 1
    /\ Occurrences(cu.calls, "conditionalUnmountOnCleanup") = 1
    /\ Occurrences(cu.calls, "GetMountID") = (IF UnmountFailed THEN 1 ELSE 0)
    /\ Occurrences(cu.calls, "cleanupMountsByID") =
          (IF UnmountFailed /\ "GetMountID" \notin cu.faults THEN 1 ELSE 0)
    /\ FirstCleanup =>
          Occurrences(cu.calls, "unregisterExecCommand") =
              Cardinality(CleanupBefore.execs)
    /\ cu.execs = {}
    /\ Occurrences(cu.calls, "CancelAttachContext") = 1
    /\ cu.calls[Len(cu.calls)] = "CancelAttachContext"
    /\ ~cu.attach

\* C14 as stated: whenever Cleanup has returned, it has attempted every
\* step, the volume unmount included, whatever failed before.
C14_EveryStepAttempted ==
    CleanupReturned =>
        /\ AlwaysCalled
        /\ Occurrences(cu.calls, "UnmountVolumes") = 1

\* C14: Cleanup returns nothing to its caller, and whenever it has returned
\* it has released the network, unmounted the IPC mounts, attempted the
\* filesystem unmount (with the lookup of the mount id on its failure, and
\* the forced unmount when the id is found), unregistered every exec
\* command and cancelled the attach context, whatever failed before; the
\* volumes are unmounted exactly when the container's BaseFS is set.
C14_StepsAttempted ==
    CleanupReturned =>
        /\ AlwaysCalled
        /\ Occurrences(cu.calls, "UnmountVolumes") = (IF cu.BaseFS THEN 1 ELSE 0)

\* C14's case: the network release, the IPC unmount and the filesystem
\* unmount have all failed, and Cleanup went on to unregister two exec
\* commands, try the volumes and cancel the attach context
C14_Witness ==
    /\ CleanupReturned
    /\ FirstCleanup
    /\ {"releaseNetwork", "UnmountIpcMounts", "conditionalUnmountOnCleanup"}
          \subseteq cu.faults
    /\ CleanupBefore.execs = ExecIds
    /\ cu.BaseFS
    /\ cu.network
    /\ Occurrences(cu.calls, "unregisterExecCommand") = 2
    /\ Occurrences(cu.calls, "UnmountVolumes") = 1
    /\ Occurrences(cu.calls, "cleanupMountsByID") = 1

Ids == {"a", "b"}
IngestId == "ingest"
ExecPid == "exec1"

\* number of backend events the event-ingestion thread takes in one run
MaxStream == 2

\* what the backend can report of a container: the events of its init
\* process, the exit of an additional process, and a type handleEvent does
\* not name
StreamEvents ==
    Events
    \cup { Event("exit", ExecPid, s) : s \in ExitStatuses }
    \cup { Event("other", InitFriendlyName, 0) }

\* a client.lock(id) that never waits
CanLockAlways(l, id) == TRUE

\* spec: client.lock(id) / client.unlock(id), an exclusive lock per
\* container ID
CanLock(l, id) == l[id] = Free
Lock(l, id, who) == [l EXCEPT ![id] = who]
Unlock(l, id) == [l EXCEPT ![id] = Free]

Idle == [pc |-> "idle", id |-> "a", e |-> Event("none", InitFriendlyName, 0),
         ret |-> "none"]
NoRestartWaiter == [pc |-> "none", st |-> NoSt, err |-> FALSE]

\* the event-ingestion thread takes the next event of the backend for a
\* container that has a shadow in the client's registry (spec), and calls
\* handleEvent: client.lock, line 171, is next
IngestReceive(id, e) ==
    /\ stream.ingest.pc = "idle"
    /\ stream.n < MaxStream
    /\ BackendEmits(stream.bk[id], e)
    /\ stream.sh[id].registered
    /\ stream' = [stream EXCEPT
                    !.ingest = [pc |-> "lock", id |-> id, e |-> e, ret |-> "none"],
                    !.bk[id] = BackendAfter(@, e),
                    !.n = @ + 1]
    /\ UNCHANGED <<lifecycle, cr, cu>>

\* handleEvent, line 171: ctr.client.lock(ctr.containerID)
IngestLock ==
    /\ stream.ingest.pc = "lock"
    /\ CanLock(stream.lock, stream.ingest.id)
    /\ stream' = [stream EXCEPT
                    !.lock = Lock(@, stream.ingest.id, IngestId),
                    !.ingest.pc = "body"]
    /\ UNCHANGED <<lifecycle, cr, cu>>

\* handleEvent, lines 173-244: the switch on the event's type, and the
\* result nil
IngestHandle ==
    /\ stream.ingest.pc = "body"
    /\ LET id == stream.ingest.id
           e  == stream.ingest.e
       IN  IF Recognised(e)
           THEN LET n   == stream.clock + 1
                    cv  == stream.sh[id]
                    st0 == NewStateInfo(e, cv, n)
                    cv1 == NoteOOM(e, cv)
                    ask == ConsultsRestartManager(st0, cv1)
                    d   == IF ask THEN ShouldRestart(stream.rms[id], e.Status, FALSE)
                           ELSE [restart |-> FALSE, err |-> FALSE, rm |-> stream.rms[id]]
                    st  == DecideState(st0, d)
                 IN  stream' = [stream EXCEPT
                        !.sh[id] = ShadowAfterEvent(st, cv1),
                        !.rms[id] = d.rm,
                        !.asked = @ \cup (IF ask THEN {n} ELSE {}),
                        !.w[id] = IF st.State = "restart"
                                  THEN [pc |-> "waiting", st |-> st, err |-> FALSE]
                                  ELSE @,
                        !.q[id] = Append(@, QEntry(st, n)),
                        !.clock = n,
                        !.handled = Append(@, [id |-> id, e |-> e, n |-> n]),
                        !.ingest.pc = "unlock",
                        !.ingest.ret = "nil"]
           ELSE stream' = [stream EXCEPT
                        !.handled = Append(@, [id |-> id, e |-> e, n |-> 0]),
                        !.ingest.pc = "unlock",
                        !.ingest.ret = "nil"]
    /\ UNCHANGED <<lifecycle, cr, cu>>

\* handleEvent, line 172: the deferred ctr.client.unlock(ctr.containerID)
IngestUnlock ==
    /\ stream.ingest.pc = "unlock"
    /\ stream' = [stream EXCEPT
                    !.lock = Unlock(@, stream.ingest.id),
                    !.ingest.pc = "idle"]
    /\ UNCHANGED <<lifecycle, cr, cu>>

\* handleEvent, line 196: err := <-wait; the wait elapsed (nil) or was
\* cancelled (an error).  client.lock, line 197, is next
WaitReturns(id, canceled) ==
    /\ stream.w[id].pc = "waiting"
    /\ stream' = [stream EXCEPT
                    !.w[id].pc = "lock",
                    !.w[id].err = canceled,
                    !.rms[id].active = FALSE]
    /\ UNCHANGED <<lifecycle, cr, cu>>

\* handleEvent, line 197: ctr.client.lock(ctr.containerID) in the waiter
WaiterLock(id) ==
    /\ stream.w[id].pc = "lock"
    /\ CanLock(stream.lock, id)
    /\ stream' = [stream EXCEPT
                    !.lock = Lock(@, id, WaiterId),
                    !.w[id].pc = "body"]
    /\ UNCHANGED <<lifecycle, cr, cu>>

\* handleEvent, lines 199-213, and start, lines 101-140, up to the create
\* RPC being sent.  out: "specErr" = ctr.spec() fails, "fifoErr" = openFifos
\* fails, "ok"
WaiterBody(id, out) ==
    /\ stream.w[id].pc = "body"
    /\ LET cv == [stream.sh[id] EXCEPT !.restarting = FALSE]
           st == [stream.w[id].st EXCEPT !.State = "exit"]
       IN  IF stream.w[id].err
           THEN /\ out = "ok"
                /\ stream' = [stream EXCEPT
                      !.sh[id] = clean(cv),
                      !.q[id] = Append(WriteShared(@, st.n, "exit"), QEntry(st, st.n)),
                      !.w[id].pc = "unlock"]
           ELSE /\ out # "specErr" => cv.dir
                /\ stream' = [stream EXCEPT
                      !.sh[id] = IF out = "ok" THEN appendContainer(cv) ELSE cv,
                      !.w[id].pc = IF out = "ok" THEN "rpc" ELSE "unlock"]
    /\ UNCHANGED <<lifecycle, cr, cu>>

\* start, lines 140-147: the create RPC returns; on success start calls
\* backend.AttachStreams (line 147)
WaiterRpc(id, ok) ==
    /\ stream.w[id].pc = "rpc"
    /\ ok => ~stream.bk[id].running
    /\ stream' = IF ok
                 THEN [stream EXCEPT
                         !.bk[id].running = TRUE,
                         !.bk[id].execs = {},
                         !.w[id].pc = "AttachStreams"]
                 ELSE [stream EXCEPT !.w[id].pc = "unlock"]
    /\ UNCHANGED <<lifecycle, cr, cu>>

\* start, lines 147-153: backend.AttachStreams returns; on success start
\* calls backend.StateChanged with the Start StateInfo (line 153)
WaiterAttached(id, ok) ==
    /\ stream.w[id].pc = "AttachStreams"
    /\ stream' = IF ok
                 THEN LET n == stream.clock + 1
                      IN  [stream EXCEPT
                             !.sh[id].systemPid = 1,
                             !.clock = n,
                             !.delivered[id] =
                                 Append(@, StateInfo("start", 0, FALSE, "", n)),
                             !.w[id].pc = "StateChanged"]
                 ELSE [stream EXCEPT !.w[id].pc = "unlock"]
    /\ UNCHANGED <<lifecycle, cr, cu>>

\* start, line 153: backend.StateChanged returns, and start with it
WaiterNotified(id) ==
    /\ stream.w[id].pc = "StateChanged"
    /\ stream' = [stream EXCEPT !.w[id].pc = "unlock"]
    /\ UNCHANGED <<lifecycle, cr, cu>>

\* handleEvent, line 198: the deferred ctr.client.unlock(ctr.containerID)
WaiterUnlock(id) ==
    /\ stream.w[id].pc = "unlock"
    /\ stream' = [stream EXCEPT
                    !.lock = Unlock(@, id),
                    !.w[id] = NoRestartWaiter]
    /\ UNCHANGED <<lifecycle, cr, cu>>

\* spec: the delivery queue of a container runs its next closure (lines
\* 227-239), which calls backend.StateChanged
StreamDeliver(id) ==
    /\ stream.q[id] # <<>>
    /\ stream' = [stream EXCEPT
                    !.delivered[id] = Append(@, Head(stream.q[id]).st),
                    !.q[id] = Tail(@)]
    /\ UNCHANGED <<lifecycle, cr, cu>>

\* two running containers with an additional process each, and the restart
\* policy each was created with
InitStream ==
    /\ InitLifecycle(IdleLifecycle)
    /\ cr = NoCreate
    /\ cu = NoCleanup
    /\ \E pol \in [Ids -> {"no", "always"}] :
         stream =
           [n |-> 0, clock |-> 0,
            sh |-> [id \in Ids |->
                      [registered |-> TRUE, restarting |-> FALSE, oom |-> FALSE,
                       dir |-> TRUE, processes |-> {ExecPid},
                       restartManager |-> TRUE, systemPid |-> 1,
                       noClean |-> FALSE]],
            rms |-> [id \in Ids |->
                      [policy |-> pol[id], restartCount |-> 0, timeout |-> 0,
                       active |-> FALSE]],
            bk |-> [id \in Ids |->
                      [running |-> TRUE, paused |-> FALSE, execs |-> {ExecPid}]],
            lock |-> [id \in Ids |-> Free],
            ingest |-> Idle,
            w |-> [id \in Ids |-> NoRestartWaiter],
            q |-> [id \in Ids |-> <<>>],
            delivered |-> [id \in Ids |-> <<>>],
            handled |-> <<>>,
            asked |-> {}]

NextStream ==
    \/ \E id \in Ids, e \in StreamEvents : IngestReceive(id, e)
    \/ IngestLock
    \/ IngestHandle
    \/ IngestUnlock
    \/ \E id \in Ids, canceled \in BOOLEAN : WaitReturns(id, canceled)
    \/ \E id \in Ids : WaiterLock(id)
    \/ \E id \in Ids, out \in {"specErr", "fifoErr", "ok"} : WaiterBody(id, out)
    \/ \E id \in Ids, ok \in BOOLEAN : WaiterRpc(id, ok)
    \/ \E id \in Ids, ok \in BOOLEAN : WaiterAttached(id, ok)
    \/ \E id \in Ids : WaiterNotified(id)
    \/ \E id \in Ids : WaiterUnlock(id)
    \/ \E id \in Ids : StreamDeliver(id)

StreamSpec == InitStream /\ [][NextStream]_vars

\* the steps of the model in which handleEvent's switch runs
HandlesEvent == stream.ingest.pc = "body" /\ stream'.ingest.pc = "unlock"
\* the waiter is past its client.lock and before its unlock
InWaiterBody(id) ==
    stream.w[id].pc \in {"body", "rpc", "AttachStreams", "StateChanged", "unlock"}
\* handleEvent is past its client.lock and before its unlock
InHandler(id) ==
    stream.ingest.pc \in {"body", "unlock"} /\ stream.ingest.id = id
\* start, called by the waiter, is inside backend.AttachStreams or
\* backend.StateChanged
InCallback(id) == stream.w[id].pc \in {"AttachStreams", "StateChanged"}

C16_LockHeld ==
    \A id \in Ids :
        /\ InHandler(id) => stream.lock[id] = IngestId
        /\ InWaiterBody(id) => stream.lock[id] = WaiterId

C16_ChangesUnderLock ==
    \A id \in Ids :
        (\/ stream'.sh[id] # stream.sh[id]
         \/ Len(stream'.q[id]) > Len(stream.q[id])
         \/ stream'.w[id].pc = "waiting" /\ stream.w[id].pc # "waiting")
        => /\ stream.lock[id] \in {IngestId, WaiterId}
           /\ stream'.lock[id] = stream.lock[id]

\* C16: from its client.lock to its unlock, handleEvent holds the lock of
\* the event's container and the restart waiter holds the lock of its
\* container, so the two are never both inside for one container; and the
\* shadow is changed, a closure queued and a waiter started only by a step
\* of the lock's holder.
C16_HandlingUnderLock == []C16_LockHeld /\ [][C16_ChangesUnderLock]_vars

\* C16's case: the waiter of container a is inside start, holding a's lock,
\* while handleEvent runs for container b, holding b's lock
C16_Witness ==
    /\ stream.w["a"].pc = "rpc"
    /\ stream.lock["a"] = WaiterId
    /\ stream.ingest.pc = "body"
    /\ stream.ingest.id = "b"
    /\ stream.lock["b"] = IngestId

\* C17: while a callback (backend.AttachStreams or backend.StateChanged) of
\* a container is running, the event-ingestion thread is never waiting for
\* a lock that the callback's caller holds.
C17_CallbackOutsideLock ==
    \A id \in Ids :
        InCallback(id) =>
            ~(/\ stream.ingest.pc = "lock"
              /\ stream.ingest.id = id
              /\ stream.lock[id] = WaiterId)

\* closures of the event numbered n still queued, and StateInfo values of
\* it the callback has received
StreamQueuedOf(id, n) == {k \in 1..Len(stream.q[id]) : stream.q[id][k].ev = n}
StreamDeliveredOf(id, n) ==
    {k \in 1..Len(stream.delivered[id]) : stream.delivered[id][k].n = n}

\* C18: for every recognised event handled, the callback invocations made
\* and those queued for it are one in all: it is never dropped, and never
\* notified twice.
C18_OneCallbackPerEvent ==
    \A i \in 1..Len(stream.handled) :
        LET h == stream.handled[i]
        IN  Recognised(h.e) =>
                Cardinality(StreamQueuedOf(h.id, h.n))
                  + Cardinality(StreamDeliveredOf(h.id, h.n)) = 1

\* StateExit, StatePause, StateResume, StateOOM
StateTypes == {"exit", "pause", "resume", "oom"}

\* C19: handleEvent on an event of a type other than Exit, Pause, Resume
\* and OOM returns nil, queues no closure, and leaves the shadows (oom,
\* restarting, processes, registration), the restart managers, the waiters
\* and what the callback received unchanged.
C19_UnrecognisedDropped ==
    [][ (HandlesEvent /\ stream.ingest.e.Type \notin StateTypes) =>
            /\ stream'.ingest.ret = "nil"
            /\ stream'.q = stream.q
            /\ stream'.sh = stream.sh
            /\ stream'.rms = stream.rms
            /\ stream'.w = stream.w
            /\ stream'.asked = stream.asked
            /\ stream'.delivered = stream.delivered ]_vars

\* C19's case: an event of an unnamed type has been handled
C19_Witness ==
    /\ stream.ingest.pc = "unlock"
    /\ stream.ingest.e.Type = "other"
    /\ stream.ingest.ret = "nil"
    /\ stream.handled # <<>>
    /\ stream.handled[Len(stream.handled)].e.Type = "other"
    /\ stream.q[stream.ingest.id] = <<>>

\* C20: handleEvent on an Exit whose pid is not the init process queues one
\* ExitProcess StateInfo carrying that pid and the exit status, does not
\* consult the restart manager, starts no waiter, and changes nothing of
\* the shadow (restarting, directory, registration) but the process map,
\* from which it removes that pid.
C20_SubProcessExit ==
    [][ (/\ HandlesEvent
         /\ stream.ingest.e.Type = "exit"
         /\ stream.ingest.e.Pid # InitFriendlyName) =>
            LET id == stream.ingest.id
                e  == stream.ingest.e
            IN  /\ Len(stream'.q[id]) = Len(stream.q[id]) + 1
                /\ LET st == stream'.q[id][Len(stream'.q[id])].st
                   IN  /\ st.State = "exit-process"
                       /\ st.ProcessID = e.Pid
                       /\ st.ExitCode = e.Status
                /\ stream'.asked = stream.asked
                /\ stream'.rms = stream.rms
                /\ stream'.w = stream.w
                /\ stream'.sh = [stream.sh EXCEPT ![id].processes = @ \ {e.Pid}]
                /\ stream'.sh[id].registered ]_vars

\* C20's case: the exit of an additional process was handled after an OOM
\* of its container; the container stays registered, with its directory
C20_Witness ==
    /\ stream.ingest.pc = "unlock"
    /\ stream.ingest.e.Type = "exit"
    /\ stream.ingest.e.Pid = ExecPid
    /\ LET id == stream.ingest.id
       IN  /\ stream.sh[id].oom
           /\ stream.sh[id].processes = {}
           /\ stream.sh[id].registered
           /\ stream.sh[id].dir
           /\ stream.rms[id].policy = "always"
           /\ Len(stream.q[id]) = 2
           /\ stream.q[id][2].st.State = "exit-process"

(* ------------- a longer event stream of one running container --------- *)

\* a running container with the restart policy always, a start request,
\* and one backend event more than in the other runs
InitLonger ==
    /\ InitLifecycleOf({ Config("always", FALSE, FALSE, "no", TRUE) }, Threads,
                       MaxEvents + 1)
    /\ cr = NoCreate
    /\ cu = NoCleanup
    /\ stream = NoStream

LongerSpec == InitLonger /\ [][Next]_vars

\* the handled events of the container's init process: is the i-th an
\* exit, and is the j-th the first exit after the i-th
IsInitExit(i) == i \in InitExits
NextExitAfter(i, j) ==
    /\ i < j
    /\ IsInitExit(j)
    /\ \A k \in (i + 1)..(j - 1) : ~IsInitExit(k)

C22_RestartReceived ==
    \A i \in RestartExits :
        LET n == hist.handled[i].st.n
        IN  /\ \A k \in DeliveredOf(n) :
                  \/ delivered[k].State = "restart"
                  \/ /\ delivered[k].State = "exit"
                     /\ Occurrences(hist.cancelled, n) = 1
                     /\ \E k2 \in DeliveredOf(n) :
                           k2 < k /\ delivered[k2].State = "restart"
            /\ (~Queued(n) /\ DeliveredOf(n) # {}) =>
                  \E k \in DeliveredOf(n) : delivered[k].State = "restart"

C22_RestartStep ==
    (JustHandled /\ LastHandled.st.State = "restart")
    => /\ ctr'.restarting
       /\ ~ctr'.registered

\* C22: when the restart manager signals a restart for an exit of the
\* container, the handler leaves the shadow restarting and out of the
\* registry; the callback receives a Restart StateInfo for that event in
\* every interleaving of the waiter and the queue, and receives an Exit for
\* it only after that Restart and only when the wait was cancelled.
C22_RestartReported == []C22_RestartReceived /\ [][C22_RestartStep]_vars

\* a create RPC of start is in flight; it has just returned a process
RpcInFlight == waiter.state = "rpc" \/ \E t \in Threads : pc[t] = "rpc"
RpcSucceeded == ~backend.running /\ backend'.running

C23_RegisteredDuringRpc == RpcInFlight => ctr.registered

C23_RpcSuccessStep ==
    RpcSucceeded =>
        /\ ctr'.registered
        /\ ctr'.systemPid = 1
        /\ Len(delivered') = Len(delivered) + 1
        /\ delivered'[Len(delivered')].State = "start"

\* C23: while the create RPC of start is in flight the shadow is in the
\* client's registry, and the step in which the RPC returns a process
\* records its system process ID on the shadow and hands exactly one Start
\* StateInfo to the callback.
C23_StartNotified == []C23_RegisteredDuringRpc /\ [][C23_RpcSuccessStep]_vars

\* the step in which the start request of t returns nil
ReturnsNil(t) == pc[t] # "done" /\ pc'[t] = "done" /\ ret'[t].kind = "nil"

\* C24: in the step in which the daemon-side start sequence returns nil,
\* the container's lock is released and the container's running flag is
\* true.
C24_SuccessMeansRunning ==
    [][ \A t \in Threads :
            ReturnsNil(t) => (containerLock' = Free /\ c'.Running) ]_vars

\* C30: when the runtime client's start, called for a start request,
\* returns nil (and the request with it), the create RPC was issued for the
\* request and that step hands a Start StateInfo to the callback; a
\* failure of ctr.spec(), of openFifos, of the RPC or of AttachStreams never
\* ends in nil.
C30_NilMeansStarted ==
    [][ \A t \in Threads :
            (ReturnsNil(t) /\ pc[t] \in {"create", "rpc"}) =>
                /\ req'[t].issued
                /\ pc[t] = "rpc"
                /\ Len(delivered') = Len(delivered) + 1
                /\ delivered'[Len(delivered')].State = "start" ]_vars

\* a step of the start request of t
StepOf(t) == pc'[t] # pc[t]

\* C25: every step of a start request that changes the Container record
\* (flags, host configuration, network settings, exit code) is made by a
\* thread that holds the container's lock, before or after the step; and
\* the shadow record is changed only when the client's lock is free to take
\* or held by the thread that changes it.
C25_MutationsUnderLock ==
    [][ /\ \A t \in Threads :
              (StepOf(t) /\ c' # c) => (containerLock = t \/ containerLock' = t)
        /\ \A t \in Threads :
              (StepOf(t) /\ ctr' # ctr) => clientLock \in {Free, t} ]_vars

(* ------------- concurrent start requests on one container -------------- *)

\* the start requests that race on the container
Starters == {"api", "api2"}

\* a stopped container and two requests not yet made; no backend event
\* and no restart wait in the run
InitStarts ==
    /\ InitLifecycleOf(IdleLifecycle, Starters, MaxEvents)
    /\ cr = NoCreate
    /\ cu = NoCleanup
    /\ stream = NoStream

\* Daemon.Start(container) called by each request: containerStart, Create
\* and start, and the deferred unlock
NextStarts ==
    \/ \E t \in Starters : StartCall(t, "Start", "nil")
    \/ \E t \in Starters, fail \in {"none", "mount", "network", "spec"} :
          ContainerStartLock(t, fail)
    \/ \E t \in Starters, out \in {"specErr", "fifoErr", "ok"} :
          CreateIssue(t, out, Msg("create", FALSE, FALSE))
    \/ \E t \in Starters, rpcErr \in {NoMsg, Msg("create", FALSE, FALSE)},
          attachOk \in BOOLEAN :
          CreateReturn(t, rpcErr, attachOk)
    \/ \E t \in Starters : ContainerUnlock(t)

StartsSpec == InitStarts /\ [][NextStarts]_vars

\* the request of t is between containerStart's checks and its return
InContainerStart(t) == pc[t] \in {"create", "rpc", "unlock"}
\* the request of t issued a create RPC and returned nil
StartedByRpc(t) == pc[t] = "done" /\ ret[t].kind = "nil" /\ req[t].issued
\* the step in which the request of t issues its create RPC
IssuesRpc(t) == req'[t].issued /\ ~req[t].issued

C26_LockedSequence ==
    /\ \A t \in DOMAIN pc : InContainerStart(t) => containerLock = t
    /\ Cardinality({t \in DOMAIN pc : pc[t] = "rpc"}) <= 1
    /\ (\E t \in DOMAIN pc : pc[t] = "rpc") => hist.rpc >= 1

C26_NoRpcAfterSuccess ==
    \A t \in DOMAIN pc :
        IssuesRpc(t) =>
            /\ hist'.rpc = hist.rpc + 1
            /\ \A u \in DOMAIN pc \ {t} : ~StartedByRpc(u) /\ pc[u] # "rpc"

\* C26: a start request holds the container's lock from containerStart's
\* checks until it returns, at most one create RPC is in flight at a time,
\* and once a request whose create RPC succeeded has returned nil no other
\* request issues a create RPC.
C26_OneCreateRpc == []C26_LockedSequence /\ [][C26_NoRpcAfterSuccess]_vars

\* C26's case: two concurrent start requests on the stopped container have
\* returned nil, one create RPC was issued in all, and the other request
\* found the container running
C26_Witness ==
    /\ DOMAIN pc = Starters
    /\ \A t \in Starters : pc[t] = "done" /\ ret[t].kind = "nil"
    /\ StartedByRpc("api2")
    /\ ~req["api"].issued
    /\ ~req["api"].mutated
    /\ hist.rpc = 1
    /\ c.Running

\* C27: in every state of a run of create, a writable layer exists for the
\* container only if the container is in the daemon's index.
C27_RegisteredBeforeLayer == cr.rwLayer => cr.registered

\* the step in which containerStart, called for the request of t, meets a
\* container that is dead or being removed
MeetsRemoval(t) ==
    /\ pc[t] = "lock"
    /\ StepOf(t)
    /\ ~c.Running
    /\ c.RemovalInProgress \/ c.Dead

C29_NotFoundStays127 ==
    \A t \in Threads :
        (/\ pc[t] \in {"unlock", "done"}
         /\ ret[t].kind = "err"
         /\ ret[t].step = "create"
         /\ req[t].issued
         /\ ret[t].raw.nf
         /\ ~ret[t].raw.eacces) =>
            /\ ret[t].exitCode = 127
            /\ c.ExitCode = 127
            /\ ret[t].err.kind = "notfound"

(* --------------------------- progress ---------------------------------- *)

\* One step of a start request that has been made, up to its return.
RequestStep(t) ==
    \/ IsPausedCheck(t)
    \/ IsRunningCheck(t)
    \/ \E fail \in HostConfigFailures : HostConfigStep(t, fail)
    \/ \E fail \in {"none", "mount", "network", "spec"} : ContainerStartLock(t, fail)
    \/ \E out \in {"ok", "specErr", "fifoErr"}, err \in CreateErrors :
          CreateIssue(t, out, err)
    \/ \E rpcErr \in {NoMsg} \cup CreateErrors, attachOk \in BOOLEAN :
          CreateReturn(t, rpcErr, attachOk)
    \/ ContainerUnlock(t)

\* One step of the restart waiter's goroutine.
WaiterStep ==
    \/ WaitCanceled
    \/ \E out \in {"ok", "specErr", "fifoErr"} : WaitElapsed(out)
    \/ \E rpcErr \in {NoMsg} \cup CreateErrors, attachOk \in BOOLEAN :
          WaiterRpcReturn(rpcErr, attachOk)

\* Every goroutine that can run does run: the delivery queue runs a closure
\* it holds, the waiter's wait resolves and its RPC returns, and a start
\* request that was made runs to its return. Events and new requests come
\* from outside and are not obliged to happen.
Fairness ==
    /\ WF_vars(Deliver)
    /\ WF_vars(WaiterStep)
    /\ \A t \in Threads : WF_vars(RequestStep(t))

LiveSpec == Init /\ [][Next]_vars /\ Fairness

\* the restart cycles whose wait has resolved: those the waiter called start
\* for and those that were cancelled; the latest of them
ResolvedCycles ==
    {hist.waiterStarts[i] : i \in 1..Len(hist.waiterStarts)}
    \cup {hist.cancelled[i] : i \in 1..Len(hist.cancelled)}
LastResolved == CHOOSE n \in ResolvedCycles : \A m \in ResolvedCycles : m <= n
WaitResolved == ResolvedCycles # {} /\ waiter.state = "none"
\* the callback has received a Start or an Exit for that cycle or after it
ReportedAfterWait ==
    /\ ResolvedCycles # {}
    /\ \E k \in 1..Len(delivered) :
          /\ delivered[k].State \in {"start", "exit"}
          /\ delivered[k].n >= LastResolved

\* C31: whenever the wait of a restart has resolved and the waiter is done,
\* the callback eventually receives a Start or an Exit StateInfo for that
\* cycle (or a later one), also when the start the waiter invoked failed.
C31_RestartResolves == WaitResolved ~> ReportedAfterWait

\* the handled event whose StateInfo carries the number n
HandledAs(n) == {j \in 1..Len(hist.handled) : hist.handled[j].st.n = n}
\* an OOM event was handled in the run that the exit j ended: before j and
\* after every earlier exit of the init process
OOMInRunOf(j) ==
    \E i \in 1..(j - 1) :
        /\ hist.handled[i].e.Type = "oom"
        /\ NextExitAfter(i, j)

\* C32: an Exit StateInfo handed to the queue or the callback has
\* OOMKilled = true only if an OOM event was handled in the run that this
\* exit ended, that is since the exit that preceded the most recent start
\* or restart of the container.
C32_OOMOfThisRun ==
    \A k \in 1..Len(Notified) :
        (Notified[k].State = "exit" /\ Notified[k].OOMKilled) =>
            \A j \in HandledAs(Notified[k].n) : OOMInRunOf(j)

\* the exit code of a failed start attempt, by the class its error was put
\* in: 127 and 126 for the two classified RPC errors, 128 for the rest
AttemptExitCode(t) ==
    CASE ret[t].step = "create" /\ ret[t].err.kind = "notfound"   -> 127
      [] ret[t].step = "create" /\ ret[t].err.kind = "notinvoked" -> 126
      [] OTHER                                                    -> 128

\* C33: the exit code recorded on the container and carried by the "die"
\* event of a failed start is the one of this attempt, 127 or 126 for a
\* classified RPC error and 128 for any other failure, whatever exit code
\* an earlier run left on the container.
C33_ExitCodeOfThisAttempt ==
    \A t \in Threads :
        FailedContainerStart(t) =>
            /\ req[t].die = <<AttemptExitCode(t)>>
            /\ ret[t].exitCode = AttemptExitCode(t)

=============================================================================
